---- MODULE Spec2Model ----
(***************************************************************************)
(* Verification model of Utils/GeolocateTelemetry.c (orion-sdk).           *)
(*                                                                         *)
(* Four sub-machines share the module, one per component of the file:      *)
(*   SpecBuffer  - pushGeolocateBuffer / copyGeolocateTelemetry /          *)
(*                 getLOSAngularRate / getImageVelocity                    *)
(*   SpecTerrain - getTerrainIntersection, one action per loop iteration   *)
(*   SpecDecode  - DecodeGeolocateTelemetry                                *)
(*   SpecOffset  - offsetImageLocation                                     *)
(*                                                                         *)
(* Number representation                                                   *)
(*   - uint32_t millisecond values (systemTime, dt) are held as the int32  *)
(*     with the same bit pattern (u < 2^31 -> u, else u - 2^32), so that   *)
(*     all 32 bits are kept; Sub32 is subtraction modulo 2^32.             *)
(*   - angles are whole degrees; sines/cosines and matrix entries are      *)
(*     fixed point with Q units per 1.0; products are truncated.           *)
(*   - ray-march ranges are fixed point with Scale units per metre.        *)
(***************************************************************************)
EXTENDS Integers, Sequences, FiniteSets, TLC

VARIABLES
    buf,         \* GeolocateBuffer_t: [in, holding, geobuf]
    geo,         \* the caller's GeolocateTelemetry_t that is pushed (source record)
    pushes,      \* number of pushGeolocateBuffer calls so far
    lastPushed,  \* content of the record handed to the latest push
    snapshot,    \* per slot, the content of the source record when it was pushed there
    ret,         \* outcome of the latest buffer operation
    pc,          \* getTerrainIntersection: "idle", "loop" or "done"
    pRange,      \* *pRange
    Step,        \* Step
    End,         \* End
    PosAlt,      \* PosLLA[ALT]
    GroundHeight,\* GroundHeight of the latest elevation lookup
    trace,       \* getTerrainIntersection: bookkeeping of the march (see TerrainInit)
    result,      \* getTerrainIntersection: return value once pc = "done"
    dec,         \* DecodeGeolocateTelemetry: inputs and resulting pGeo fields
    off          \* offsetImageLocation: inputs and outputs

bufVars == <<buf, geo, pushes, lastPushed, snapshot, ret>>
terVars == <<pc, pRange, Step, End, PosAlt, GroundHeight, trace, result>>
vars == <<buf, geo, pushes, lastPushed, snapshot, ret, pc, pRange, Step, End, PosAlt,
          GroundHeight, trace, result, dec, off>>

----------------------------------------------------------------------------
(* Bounds of the model *)

\* GEOLOCATE_BUFFER_SIZE; its defining header is not part of the file, the
\* model uses a small capacity.
GEOLOCATE_BUFFER_SIZE == 3

\* Pushes explored; larger than the capacity so that the cursor wraps.
MaxPushes == 5

\* Fixed-point units per 1.0 of a sine, cosine or matrix entry.
Q == 1000

----------------------------------------------------------------------------
(* 32-bit arithmetic *)

MaxInt32 == 2147483647
MinInt32 == -2147483647 - 1

\* a - b modulo 2^32, on int32 bit patterns, without leaving the int32 range.
Sub32(a, b) ==
    IF (a >= 0) = (b >= 0) THEN a - b
    ELSE IF a >= 0
         THEN \* b < 0: a - b > 0, wraps when it exceeds MaxInt32
              IF a > MaxInt32 + b THEN (a - MaxInt32 - 1) + (MinInt32 - b)
                                  ELSE a - b
         ELSE \* a < 0 <= b: a - b < 0, wraps when below MinInt32
              IF a < MinInt32 + b THEN (a - MinInt32) + (MaxInt32 - b) + 1
                                  ELSE a - b

\* unsigned comparison a >= b of two uint32 held as int32 bit patterns
UGe(a, b) ==
    IF (a >= 0) = (b >= 0) THEN a >= b ELSE a < 0

----------------------------------------------------------------------------
(* Fixed-point helpers and the rotation library *)

\* x / d truncated toward zero (C conversion of a quotient)
Trunc(x, d) == IF x >= 0 THEN x \div d ELSE -((-x) \div d)

\* sine of a multiple of 10 degrees in 0..90, in units of 1/Q
SinTable(a) ==
    CASE a = 0  -> 0
      [] a = 10 -> (174 * Q) \div 1000
      [] a = 20 -> (342 * Q) \div 1000
      [] a = 30 -> (500 * Q) \div 1000
      [] a = 40 -> (643 * Q) \div 1000
      [] a = 50 -> (766 * Q) \div 1000
      [] a = 60 -> (866 * Q) \div 1000
      [] a = 70 -> (940 * Q) \div 1000
      [] a = 80 -> (985 * Q) \div 1000
      [] a = 90 -> Q

Sin(deg) ==
    LET a == deg % 360 IN
    IF a <= 90 THEN SinTable(a)
    ELSE IF a <= 180 THEN SinTable(180 - a)
    ELSE IF a <= 270 THEN -SinTable(a - 180)
    ELSE -SinTable(360 - a)

Cos(deg) == Sin(deg + 90)

\* A DCM is a tuple of 9 entries, row major; Get(m, r, c) is dcmGet.
dcmGet(m, r, c) == m[3 * r + c + 1]

identityDcm == <<Q, 0, 0,  0, Q, 0,  0, 0, Q>>
zeroDcm == <<0, 0, 0,  0, 0, 0,  0, 0, 0>>

\* matrixMultiplyf: a * b
matrixMultiplyf(a, b) ==
    [k \in 1..9 |->
        LET r == (k - 1) \div 3
            c == (k - 1) % 3
        IN Trunc(dcmGet(a, r, 0) * dcmGet(b, 0, c) + dcmGet(a, r, 1) * dcmGet(b, 1, c)
                 + dcmGet(a, r, 2) * dcmGet(b, 2, c), Q)]

\* matrixMultiplyTransAf: transpose(a) * b
matrixMultiplyTransAf(a, b) ==
    [k \in 1..9 |->
        LET r == (k - 1) \div 3
            c == (k - 1) % 3
        IN Trunc(dcmGet(a, 0, r) * dcmGet(b, 0, c) + dcmGet(a, 1, r) * dcmGet(b, 1, c)
                 + dcmGet(a, 2, r) * dcmGet(b, 2, c), Q)]

\* dcmApplyRotation: m * v
dcmApplyRotation(m, v) ==
    [r \in 1..3 |->
        Trunc(dcmGet(m, r - 1, 0) * v[1] + dcmGet(m, r - 1, 1) * v[2]
              + dcmGet(m, r - 1, 2) * v[3], Q)]

\* setDCMBasedOnPanTilt: pan about the vertical axis, then tilt (Euler yaw, pitch)
setDCMBasedOnPanTilt(pan, tilt) ==
    <<Trunc(Cos(pan) * Cos(tilt), Q), -Sin(pan), Trunc(Cos(pan) * Sin(tilt), Q),
      Trunc(Sin(pan) * Cos(tilt), Q),  Cos(pan), Trunc(Sin(pan) * Sin(tilt), Q),
      -Sin(tilt),                      0,        Cos(tilt)>>

----------------------------------------------------------------------------
(* History buffer: pushGeolocateBuffer, copyGeolocateTelemetry,            *)
(* getLOSAngularRate, getImageVelocity                                      *)

\* The storage a DCM_t.data pointer can reference: the caller's record or
\* the record of slot i; NullPtr is the pointer of zero-initialised memory.
GeoPtr == <<"geo">>
NullPtr == <<"null">>
SlotPtr(i) == <<"slot", i>>

Slots == 0..(GEOLOCATE_BUFFER_SIZE - 1)

\* Timestamps of the records pushed (uint32 ms as int32 bit patterns):
\* 2^32 - 500, 0 and 500, so that 500 ms gaps, equal stamps, out-of-order
\* stamps and a wrap of the millisecond counter all occur.
TimeSet == {-500, 0, 500}

\* Desired intervals handed to the queries: 0, 500 and 2^31.
DtSet == {0, 500, MinInt32}

\* Camera attitudes of the records pushed: panned by 0 and by 10 degrees.
CamSet == {setDCMBasedOnPanTilt(0, 0), setDCMBasedOnPanTilt(10, 0)}

\* Target ranges handed to getImageVelocity, metres
RangeSet == {100}

\* A caller's resolved record with the given timestamp and camera attitude;
\* structInitDCM has pointed both DCMs at the record's own arrays.
SourceRecord(t, cam) ==
    [systemTime |-> t, velNED |-> <<10, 0, 0>>,
     cameraDcmdata |-> cam, gimbalDcmdata |-> identityDcm,
     cameraDcm |-> GeoPtr, gimbalDcm |-> GeoPtr]

\* A slot of the zero-initialised buffer
EmptySlot ==
    [systemTime |-> 0, velNED |-> <<0, 0, 0>>,
     cameraDcmdata |-> zeroDcm, gimbalDcmdata |-> zeroDcm,
     cameraDcm |-> NullPtr, gimbalDcm |-> NullPtr]

\* The fields of a record that are data (not references)
Content(r) ==
    [systemTime |-> r.systemTime, velNED |-> r.velNED,
     cameraDcmdata |-> r.cameraDcmdata, gimbalDcmdata |-> r.gimbalDcmdata]

\* The 9 entries a DCM_t.data pointer leads to
Deref(b, g, ptr, field) ==
    CASE ptr = GeoPtr -> g[field]
      [] ptr[1] = "slot" -> b.geobuf[ptr[2]][field]

\* The camera DCM of slot i as the code reads it, through the data pointer
SlotCameraDcm(b, g, i) == Deref(b, g, b.geobuf[i].cameraDcm, "cameraDcmdata")
SlotGimbalDcm(b, g, i) == Deref(b, g, b.geobuf[i].gimbalDcm, "gimbalDcmdata")

\* Faulty variant: plain structure assignment, the pointers are not fixed
copyByAssignment(source, i) == source

\* copyGeolocateTelemetry(source, &geobuf[i]): the value stored in the slot
copyGeolocateTelemetry(source, i) ==
    [source EXCEPT !.cameraDcm = SlotPtr(i), !.gimbalDcm = SlotPtr(i)]

\* index - 1 with the wrap of lines 341-343, 351-353, 392-394
Back(index) == IF index - 1 < 0 THEN index - 1 + GEOLOCATE_BUFFER_SIZE ELSE index - 1

\* newest = buf->in - 1, wrapped
Newest(b) == Back(b.in)

\* oldest = newest - (holding - 1), wrapped
Oldest(b) ==
    LET o == Newest(b) - (b.holding - 1)
    IN IF o < 0 THEN o + GEOLOCATE_BUFFER_SIZE ELSE o

NoRate == [ok |-> FALSE, index |-> -1, diff |-> 0, nonfinite |-> FALSE,
           rates |-> <<0, 0, 0>>]

\* The body of the if at lines 360-389: rates in 1/Q rad/s from slot index
\* and the newest slot; 1000.0/diff is infinite when diff = 0.
RateFrom(b, g, index, diff) ==
    LET temp == matrixMultiplyTransAf(SlotCameraDcm(b, g, index),
                                      SlotCameraDcm(b, g, Newest(b)))
        d0 == Trunc(dcmGet(temp, 2, 1) - dcmGet(temp, 1, 2), 2)
        d1 == Trunc(dcmGet(temp, 0, 2) - dcmGet(temp, 2, 0), 2)
        d2 == Trunc(dcmGet(temp, 1, 0) - dcmGet(temp, 0, 1), 2)
    IN [ok |-> TRUE, index |-> index, diff |-> diff, nonfinite |-> (diff = 0),
        rates |-> IF diff = 0 THEN <<0, 0, 0>>
                  ELSE <<Trunc(d0 * 1000, diff), Trunc(d1 * 1000, diff),
                         Trunc(d2 * 1000, diff)>>]

\* The comparison of line 360: diff >= (int32_t)dt
OldEnough(diff, dt) == diff >= dt

\* The loop condition of line 355
KeepSearching(index, oldest) == index # oldest

\* The while loop of lines 355-396
RECURSIVE SearchBack(_, _, _, _)
SearchBack(b, g, dt, index) ==
    IF ~KeepSearching(index, Oldest(b)) THEN NoRate
    ELSE LET diff == Sub32(b.geobuf[Newest(b)].systemTime, b.geobuf[index].systemTime)
         IN IF OldEnough(diff, dt) THEN RateFrom(b, g, index, diff)
            ELSE SearchBack(b, g, dt, Back(index))

\* getLOSAngularRate(buf, dt, rates)
LOSAngularRate(b, g, dt) ==
    IF b.holding < 2 THEN NoRate
    ELSE SearchBack(b, g, dt, Back(Newest(b)))

\* Faulty variant: the cursor wraps one slot too late
AdvanceInLate(in) == IF in + 1 > GEOLOCATE_BUFFER_SIZE THEN 0 ELSE in + 1

\* The write cursor after a push, lines 316-318
AdvanceIn(in) == IF in + 1 >= GEOLOCATE_BUFFER_SIZE THEN 0 ELSE in + 1

\* The held count after a push, lines 321-322
CountHeld(holding) == IF holding < GEOLOCATE_BUFFER_SIZE THEN holding + 1 ELSE holding

NoRet == [op |-> "none", dt |-> 0, rate |-> NoRate, imageVel |-> <<0, 0, 0>>]

BufferInit ==
    /\ buf = [in |-> 0, holding |-> 0, geobuf |-> [i \in Slots |-> EmptySlot]]
    /\ geo \in {SourceRecord(t, cam) : t \in TimeSet, cam \in CamSet}
    /\ pushes = 0
    /\ lastPushed = Content(EmptySlot)
    /\ snapshot = [i \in Slots |-> Content(EmptySlot)]
    /\ ret = NoRet

\* The caller resolves the next packet into its record (the record is reused)
LoadSource ==
    /\ \E t \in TimeSet, cam \in CamSet : geo' = SourceRecord(t, cam)
    /\ ret' = [NoRet EXCEPT !.op = "load"]
    /\ UNCHANGED <<buf, pushes, lastPushed, snapshot>>

\* pushGeolocateBuffer(buf, geo)
pushGeolocateBuffer ==
    /\ pushes < MaxPushes
    /\ buf' = [in |-> AdvanceIn(buf.in),
               holding |-> CountHeld(buf.holding),
               geobuf |-> [buf.geobuf EXCEPT ![buf.in] = copyGeolocateTelemetry(geo, buf.in)]]
    /\ pushes' = pushes + 1
    /\ lastPushed' = Content(geo)
    /\ snapshot' = [snapshot EXCEPT ![buf.in] = Content(geo)]
    /\ ret' = [NoRet EXCEPT !.op = "push"]
    /\ UNCHANGED geo

\* getLOSAngularRate(buf, dt, rates)
getLOSAngularRate ==
    /\ \E dt \in DtSet :
          ret' = [op |-> "rate", dt |-> dt, rate |-> LOSAngularRate(buf, geo, dt),
                  imageVel |-> <<0, 0, 0>>]
    /\ UNCHANGED <<buf, geo, pushes, lastPushed, snapshot>>

\* omega cross r for r = (range, 0, 0), line 284
CrossRadius(rates, range) == <<0, rates[3] * range, -(rates[2] * range)>>

\* getImageVelocity(buf, range, imageVel, dt); velocities in 1/Q m/s
ImageVelocity(b, g, range, dt) ==
    LET r == LOSAngularRate(b, g, dt)
        vel == CrossRadius(r.rates, range)
        rot == dcmApplyRotation(SlotCameraDcm(b, g, Newest(b)), vel)
        own == b.geobuf[Newest(b)].velNED
    IN IF r.ok
       THEN <<rot[1] + own[1] * Q, rot[2] + own[2] * Q, rot[3] + own[3] * Q>>
       ELSE <<0, 0, 0>>

getImageVelocity ==
    /\ \E dt \in DtSet, range \in RangeSet :
          ret' = [op |-> "velocity", dt |-> dt, rate |-> LOSAngularRate(buf, geo, dt),
                  imageVel |-> ImageVelocity(buf, geo, range, dt)]
    /\ UNCHANGED <<buf, geo, pushes, lastPushed, snapshot>>

----------------------------------------------------------------------------
(* Terrain intersector: getTerrainIntersection                              *)

\* Fixed-point units per metre of a range
Scale == 1000

\* Line 189 and line 192, metres
StepCoarse == 30
StepFine == 1
MaxDistance == 15000

Coarse == StepCoarse * Scale
Fine == StepFine * Scale

MAX(a, b) == IF a > b THEN a ELSE b

\* *pRange * 0.01f of line 228, truncated to the range resolution.  The
\* float 0.01f is 0.00999999977..., so the product lies below range/100 by
\* less than one unit for every range up to MaxDistance.
OnePercent(range) ==
    IF range > 0 /\ range % 100 = 0 THEN range \div 100 - 1 ELSE range \div 100

\* Lines 225-229: the step while coarse stepping, unchanged while fine stepping
NextStep(step, range) ==
    IF step # Fine THEN MAX(Coarse, OnePercent(range)) ELSE step

\* Line 232
UnderGround(alt, ground) == alt <= ground

\* Faulty variant: a sample at or below ground is always taken as the intersection
NeverCoarse(step) == FALSE

\* Line 235
StillCoarse(step) == step # Fine

\* Faulty variant: the step is not switched to the fine step
BackUpKeepStep(range, step) ==
    [pRange |-> range - step, End |-> (range - step) + step, Step |-> step]

\* Lines 238-242: range, End and Step after backing up one step
BackUp(range, step) ==
    [pRange |-> range - step, End |-> (range - step) + step, Step |-> Fine]

\* Line 248: the altitude reported with an intersection
ClampAlt(alt, ground) == ground

\* PosLLA[ALT] of the point at the given range (ecefToLLA of the gimbal
\* position plus range times the unit line of sight): a line of sight
\* 30 degrees below the horizon, altitude in metres relative to the gimbal.
RayAlt(range) == -(range \div (2 * Scale))

\* What getElevationHAE may return for the point at the given range.  Points
\* at different ranges have different latitude and longitude, so a pure
\* elevation function is free at every new range (below, at or above the
\* ray) and repeats its earlier answer at a range looked up before: the
\* range of the coarse detection and the coarse sample before it are the
\* only ranges the fine search can revisit.
Elevations(range, t) ==
    IF range = t.hitRange THEN {t.hitGround}
    ELSE IF range = t.prevCoarse THEN {RayAlt(range) - 1}
    ELSE {RayAlt(range) - 1, RayAlt(range), RayAlt(range) + 1}

\* trace: lookups    number of getElevationHAE calls
\*        backups    number of times the range was backed up
\*        posRange   range of the point PosLLA[LAT], PosLLA[LON] describe
\*        hitRange   range of the coarse sample found at or below ground
\*        hitGround  the elevation looked up there
\*        prevCoarse range of the latest coarse sample found above ground
\*        fineUnder  number of fine samples found at or below ground
\*        everUnder  some sample was at or below ground
TerrainInit ==
    /\ pc = "idle"
    /\ pRange = 0
    /\ Step = 0
    /\ End = 0
    /\ PosAlt = 0
    /\ GroundHeight = 0
    /\ result = FALSE
    /\ trace = [lookups |-> 0, backups |-> 0, posRange |-> -1, hitRange |-> -1,
                hitGround |-> 0, prevCoarse |-> -1, fineUnder |-> 0,
                everUnder |-> FALSE]

\* Lines 204-208: Step = StepCoarse, End = MaxDistance, *pRange = Step
TerrainStart ==
    /\ pc = "idle"
    /\ pc' = "loop"
    /\ Step' = Coarse
    /\ End' = MaxDistance * Scale
    /\ pRange' = Coarse
    /\ UNCHANGED <<PosAlt, GroundHeight, trace, result>>

\* One iteration of the for loop, lines 208-252, with the increment
TerrainIterate ==
    /\ pc = "loop"
    /\ pRange <= End
    /\ \E ground \in Elevations(pRange, trace) :
        LET alt == RayAlt(pRange)
            step == NextStep(Step, pRange)
            t == [trace EXCEPT !.lookups = @ + 1, !.posRange = pRange]
        IN /\ GroundHeight' = ground
           /\ IF UnderGround(alt, ground)
              THEN IF StillCoarse(step)
                   THEN LET b == BackUp(pRange, step)
                        IN /\ pRange' = b.pRange + b.Step
                           /\ End' = b.End
                           /\ Step' = b.Step
                           /\ PosAlt' = alt
                           /\ trace' = [t EXCEPT !.backups = @ + 1, !.hitRange = pRange,
                                                 !.hitGround = ground, !.everUnder = TRUE]
                           /\ UNCHANGED <<pc, result>>
                   ELSE /\ PosAlt' = ClampAlt(alt, ground)
                        /\ result' = TRUE
                        /\ pc' = "done"
                        /\ Step' = step
                        /\ trace' = [t EXCEPT !.fineUnder = @ + 1, !.everUnder = TRUE]
                        /\ UNCHANGED <<pRange, End>>
              ELSE /\ pRange' = pRange + step
                   /\ Step' = step
                   /\ PosAlt' = alt
                   /\ trace' = IF step # Fine THEN [t EXCEPT !.prevCoarse = pRange] ELSE t
                   /\ UNCHANGED <<End, pc, result>>

\* The loop condition fails: line 255
TerrainExit ==
    /\ pc = "loop"
    /\ pRange > End
    /\ pc' = "done"
    /\ result' = FALSE
    /\ UNCHANGED <<pRange, Step, End, PosAlt, GroundHeight, trace>>

----------------------------------------------------------------------------
(* Telemetry decoder: DecodeGeolocateTelemetry                              *)

\* vector3Lengthf on whole numbers: the integer square root of the sum of squares
RECURSIVE Isqrt(_)
Isqrt(n) ==
    IF n < 2 THEN n
    ELSE LET s == 2 * Isqrt(n \div 4)
         IN IF (s + 1) * (s + 1) <= n THEN s + 1 ELSE s

vector3Lengthf(v) == Isqrt(v[1] * v[1] + v[2] * v[2] + v[3] * v[3])

\* wrapAnglef: one circle of adjustment into (-180, 180]
wrapAnglef(angle) ==
    IF angle > 180 THEN angle - 360
    ELSE IF angle <= -180 THEN angle + 360
    ELSE angle

\* subtractAnglesf(left, right)
subtractAnglesf(left, right) == wrapAnglef(left - right)

\* wrapAngle90f: one circle of adjustment with the wrap point at -270/+90
wrapAngle90f(angle) ==
    IF angle > 90 THEN angle - 360
    ELSE IF angle <= -270 THEN angle + 360
    ELSE angle

\* quaternionToDCM for a quaternion <<q0, q1, q2, q3>> in units of 1/Q
quaternionToDCM(q) ==
    LET P(a, b) == Trunc(2 * q[a + 1] * q[b + 1], Q)
    IN <<Q - P(2, 2) - P(3, 3), P(1, 2) - P(0, 3),     P(1, 3) + P(0, 2),
         P(1, 2) + P(0, 3),     Q - P(1, 1) - P(3, 3), P(2, 3) - P(0, 1),
         P(1, 3) - P(0, 2),     P(2, 3) + P(0, 1),     Q - P(1, 1) - P(2, 2)>>

identityQuat == <<Q, 0, 0, 0>>

\* Faulty variant: the tilt is reduced only above 180 degrees
NormalizeTiltLate(tilt) == IF tilt > 180 THEN tilt - 360 ELSE tilt

\* Lines 42-43: tilt from -180..180 into -270..90
NormalizeTilt(tilt) == IF tilt > 90 THEN tilt - 360 ELSE tilt

\* Faulty variant: the output shift is added
ShiftedAngleAdded(angle, shift) == wrapAnglef(angle + shift)

\* Lines 62-63: a gimbal angle offset by its output shift
ShiftedAngle(angle, shift) == subtractAnglesf(angle, shift)

\* Lines 70-73: rotation from camera to nav
ComposeCameraDcm(gimbalDcm, Pan, Tilt) ==
    matrixMultiplyf(gimbalDcm, setDCMBasedOnPanTilt(Pan, Tilt))

\* Fields of the received packet: tilt and pan in degrees within [-180, 180]
TiltSet == {-180, -90, 0, 90, 100, 130, 180}
PanSet == {0, 90}
ShiftSet == {0, 10}
QuatSet == {identityQuat, <<0, 0, 0, Q>>}
LosSet == {<<300, 400, 0>>, <<0, 0, 1000>>}
PacketSet ==
    [tilt : TiltSet, pan : PanSet, shiftPan : ShiftSet, shiftTilt : ShiftSet,
     gimbalQuat : QuatSet, losECEF : LosSet]

NoPacket == [tilt |-> 0, pan |-> 0, shiftPan |-> 0, shiftTilt |-> 0,
             gimbalQuat |-> identityQuat, losECEF |-> <<0, 0, 0>>]

\* dec: called   a decode has been attempted
\*      ok       its return value
\*      pkt      the base fields as received
\*      tiltExt  base.tilt after line 43
\*      tilt     base.tilt at return
\*      Pan, Tilt the locals of lines 62-63
DecodeInit ==
    dec = [called |-> FALSE, ok |-> FALSE, pkt |-> NoPacket, tiltExt |-> 0, tilt |-> 0,
           Pan |-> 0, Tilt |-> 0, gimbalDcm |-> zeroDcm, cameraDcm |-> zeroDcm,
           slantRange |-> 0]

\* DecodeGeolocateTelemetry on a packet the codec accepts.  The calendar
\* fields, the ECEF position and velocity, the Euler angles, the camera
\* quaternion and the image position are outputs of library conversions that
\* no other field of the record depends on; they are not carried here.
DecodeGeolocateTelemetry ==
    \E pkt \in PacketSet :
        LET tiltExt == NormalizeTilt(pkt.tilt)
            gimbalDcm == quaternionToDCM(pkt.gimbalQuat)
            Pan == ShiftedAngle(pkt.pan, pkt.shiftPan)
            Tilt == ShiftedAngle(tiltExt, pkt.shiftTilt)
        IN dec' = [called |-> TRUE, ok |-> TRUE, pkt |-> pkt, tiltExt |-> tiltExt,
                   tilt |-> wrapAngle90f(tiltExt), Pan |-> Pan, Tilt |-> Tilt,
                   gimbalDcm |-> gimbalDcm,
                   cameraDcm |-> ComposeCameraDcm(gimbalDcm, Pan, Tilt),
                   slantRange |-> vector3Lengthf(pkt.losECEF)]

\* DecodeGeolocateTelemetry on a packet the codec rejects: line 93
DecodeRejected ==
    dec' = [dec EXCEPT !.called = TRUE, !.ok = FALSE]

----------------------------------------------------------------------------
(* Offset projector: offsetImageLocation                                    *)

\* datum_meanRadius in metres per milliradian; latitudes and longitudes are
\* whole microradians.
datum_meanRadius == 6371

\* tanf of a multiple of 10 degrees in -80..80, in units of 1/Q
tanf(deg) == Trunc(Sin(deg) * Q, Cos(deg))

\* addAngles on microradians: one circle of adjustment into (-pi, pi]
addAngles(a, b) ==
    LET piUrad == 3141593
        sum == a + b
    IN IF sum > piUrad THEN sum - 2 * piUrad
       ELSE IF sum <= -piUrad THEN sum + 2 * piUrad
       ELSE sum

\* Lines 122-124: the vector from the gimbal to the image location, metres
VectorToImage(in) ==
    <<Trunc((in.imageLat - in.posLat) * datum_meanRadius, 1000),
      Trunc(Trunc((in.imageLon - in.posLon) * datum_meanRadius, 1000) * in.cosLat, Q),
      in.posAlt - in.imageAlt>>

\* Line 118
AtPole(cosLat) == cosLat = 0

\* Faulty variant: an image at the altitude of the gimbal is accepted
ImageBelowOrLevel(down) == down < 0

\* Line 131
ImageNotBelow(down) == down <= 0

\* Line 157
NewNotBelow(down) == down <= 0

\* Lines 135-153: the vector from the gimbal to the new location
VectorToNew(in) ==
    LET v == VectorToImage(in)
        range == vector3Lengthf(v)
        ydev == Trunc(tanf(in.ydev) * range, Q)
        zdev == Trunc(tanf(in.zdev) * range, Q)
        shift == dcmApplyRotation(in.cameraDcm, <<0, ydev, -zdev>>)
    IN <<v[1] + shift[1], v[2] + shift[2], v[3] + shift[3]>>

\* Lines 162-167: the new location for the given vector
NewPosition(in, down, v) ==
    LET north == Trunc(v[1] * down, v[3])
        east == Trunc(v[2] * down, v[3])
        ddown == Trunc(v[3] * down, v[3])
    IN <<addAngles(in.posLat, Trunc(north * 1000, datum_meanRadius)),
         addAngles(in.posLon, Trunc(Trunc(east * 1000, datum_meanRadius) * Q, in.cosLat)),
         in.posAlt - ddown>>

\* Gimbal at latitude and longitude 0, altitude 1000 m
OffsetInputs ==
    [cosLat : {0, Q \div 2, Q}, posLat : {0}, posLon : {0}, posAlt : {1000},
     imageLat : {0, 100}, imageLon : {0, 100}, imageAlt : {0, 1000, 2000},
     ydev : {-40, 0, 40}, zdev : {-40, 0, 40},
     cameraDcm : {identityDcm, setDCMBasedOnPanTilt(0, -90), setDCMBasedOnPanTilt(90, -40)}]

NoOffset == [cosLat |-> Q, posLat |-> 0, posLon |-> 0, posAlt |-> 0, imageLat |-> 0,
             imageLon |-> 0, imageAlt |-> 0, ydev |-> 0, zdev |-> 0,
             cameraDcm |-> identityDcm]

\* off: called    offsetImageLocation has been called
\*      in        its arguments
\*      ok        its return value
\*      written   newPosLLA has been assigned by the call
\*      newPosLLA the caller's array, cleared before the call
OffsetInit ==
    off = [called |-> FALSE, in |-> NoOffset, ok |-> FALSE, written |-> FALSE,
           newPosLLA |-> <<0, 0, 0>>]

offsetImageLocation ==
    \E in \in OffsetInputs :
        LET fail == [called |-> TRUE, in |-> in, ok |-> FALSE, written |-> FALSE,
                     newPosLLA |-> <<0, 0, 0>>]
            down == VectorToImage(in)[3]
        IN off' = IF AtPole(in.cosLat) THEN fail
                  ELSE IF ImageNotBelow(down) THEN fail
                  ELSE IF NewNotBelow(VectorToNew(in)[3]) THEN fail
                  ELSE [called |-> TRUE, in |-> in, ok |-> TRUE, written |-> TRUE,
                        newPosLLA |-> NewPosition(in, down, VectorToNew(in))]

----------------------------------------------------------------------------
(* Specifications *)

\* The buffer component before any use, with the caller's first record
BufferIdle == BufferInit /\ geo = SourceRecord(0, setDCMBasedOnPanTilt(0, 0))

InitBuffer == BufferInit /\ TerrainInit /\ DecodeInit /\ OffsetInit
NextBuffer ==
    \/ LoadSource /\ UNCHANGED <<terVars, dec, off>>
    \/ pushGeolocateBuffer /\ UNCHANGED <<terVars, dec, off>>
    \/ getLOSAngularRate /\ UNCHANGED <<terVars, dec, off>>
    \/ getImageVelocity /\ UNCHANGED <<terVars, dec, off>>
SpecBuffer == InitBuffer /\ [][NextBuffer]_vars

InitOther == BufferIdle /\ TerrainInit /\ DecodeInit /\ OffsetInit
NextTerrain ==
    \/ TerrainStart /\ UNCHANGED <<bufVars, dec, off>>
    \/ TerrainIterate /\ UNCHANGED <<bufVars, dec, off>>
    \/ TerrainExit /\ UNCHANGED <<bufVars, dec, off>>
SpecTerrain == InitOther /\ [][NextTerrain]_vars

\* The call is synchronous and single-threaded: once entered, the loop keeps
\* executing until it returns.
SpecTerrainFair == SpecTerrain /\ WF_vars(NextTerrain)

NextDecode ==
    \/ DecodeGeolocateTelemetry /\ UNCHANGED <<bufVars, terVars, off>>
    \/ DecodeRejected /\ UNCHANGED <<bufVars, terVars, off>>
SpecDecode == InitOther /\ [][NextDecode]_vars

NextOffset == offsetImageLocation /\ UNCHANGED <<bufVars, terVars, dec>>
SpecOffset == InitOther /\ [][NextOffset]_vars

----------------------------------------------------------------------------
(* Properties of the history buffer *)

Min(a, b) == IF a < b THEN a ELSE b

\* Slots behind the newest, 0 for the newest itself
Age(b, i) == (Newest(b) - i) % GEOLOCATE_BUFFER_SIZE

\* The slots that hold an entry
Held(b) == {i \in Slots : b.holding >= 1 /\ Age(b, i) < b.holding}

\* Held entries other than the newest whose timestamp is at least dt
\* (unsigned, modulo 2^32) older than the newest entry's timestamp
Candidates(b, dt) ==
    {i \in Held(b) \ {Newest(b)} :
        UGe(Sub32(b.geobuf[Newest(b)].systemTime, b.geobuf[i].systemTime), dt)}

IsQuery == ret.op \in {"rate", "velocity"}

\* C1: a query succeeds whenever at least 2 entries are held and some held
\* entry other than the newest is at least minDeltaMs older than the newest;
\* it then uses the most recent such entry, and it fails only when fewer
\* than 2 entries are held or no held entry is old enough.
C1_RateFromOldEnoughEntry ==
    IsQuery =>
        LET cands == Candidates(buf, ret.dt)
        IN IF buf.holding >= 2 /\ cands # {}
           THEN /\ ret.rate.ok
                /\ ret.rate.index \in cands
                /\ \A i \in cands : Age(buf, ret.rate.index) <= Age(buf, i)
           ELSE ~ret.rate.ok

\* C2: after n pushes the held count is min(n, N), the write cursor is
\* n mod N and within 0..N-1, and the slot one behind the cursor holds the
\* content of the record pushed last.
C2_PushCounts ==
    /\ buf.holding = Min(pushes, GEOLOCATE_BUFFER_SIZE)
    /\ buf.in = pushes % GEOLOCATE_BUFFER_SIZE
    /\ buf.in \in Slots
    /\ pushes >= 1 => Content(buf.geobuf[Newest(buf)]) = lastPushed
    /\ pushes >= GEOLOCATE_BUFFER_SIZE => Cardinality(Held(buf)) = GEOLOCATE_BUFFER_SIZE

\* More pushes than slots: the cursor has wrapped and the oldest entry was
\* overwritten by a record that differs from the one now at the cursor.
C2_Wrapped ==
    /\ pushes > GEOLOCATE_BUFFER_SIZE
    /\ buf.holding = GEOLOCATE_BUFFER_SIZE
    /\ lastPushed # snapshot[buf.in]

\* C6: the rotation matrices of every held slot reference the slot's own
\* arrays, and read through those references they are the matrices the
\* source record had when it was pushed, whatever the source holds now.
C6_DeepCopy ==
    \A i \in Held(buf) :
        /\ buf.geobuf[i].cameraDcm = SlotPtr(i)
        /\ buf.geobuf[i].gimbalDcm = SlotPtr(i)
        /\ SlotCameraDcm(buf, geo, i) = snapshot[i].cameraDcmdata
        /\ SlotGimbalDcm(buf, geo, i) = snapshot[i].gimbalDcmdata
        /\ Content(buf.geobuf[i]) = snapshot[i]

\* The source record was changed after it was pushed into a full buffer
C6_SourceReused ==
    /\ pushes > GEOLOCATE_BUFFER_SIZE
    /\ \A i \in Held(buf) : snapshot[i].cameraDcmdata # geo.cameraDcmdata

\* C10: a successful rate query divided by an elapsed time that is strictly
\* positive and at least minDeltaMs (as an unsigned 32-bit value).
C10_ElapsedPositive ==
    (IsQuery /\ ret.rate.ok) =>
        /\ ret.rate.diff > 0
        /\ UGe(ret.rate.diff, ret.dt)

----------------------------------------------------------------------------
(* Properties of the terrain intersector *)

\* C3: a successful return happens while fine stepping after one coarse
\* detection, at the first fine sample at or below ground, within
\* MaxDistance, with the position of that sample and the looked-up
\* elevation as altitude.
C3_IntersectionIsFine ==
    (pc = "done" /\ result) =>
        /\ Step = Fine
        /\ trace.backups = 1
        /\ trace.fineUnder = 1
        /\ RayAlt(pRange) <= GroundHeight
        /\ trace.posRange = pRange
        /\ pRange <= MaxDistance * Scale
        /\ pRange <= End
        /\ PosAlt = GroundHeight

\* An intersection found where the coarse step is 1% of the range, with
\* the ground above the ray at the returned sample
C3_FoundFarOut ==
    /\ pc = "done"
    /\ result
    /\ trace.hitRange > 100 * Coarse
    /\ GroundHeight > RayAlt(pRange)

\* C4: the march terminates and is bounded: at most one back-up, every
\* other iteration moves the range forward, no lookup beyond MaxDistance, at
\* most MaxDistance/StepFine lookups, and failure is returned when no sample
\* was at or below ground.
C4_MarchBounded ==
    /\ <>(pc = "done")
    /\ [](/\ trace.backups <= 1
          /\ trace.lookups <= MaxDistance \div StepFine
          /\ trace.posRange <= MaxDistance * Scale
          /\ (pc = "done" /\ ~trace.everUnder) => ~result
          /\ (pc = "done" /\ ~result /\ trace.backups = 0) => pRange > MaxDistance * Scale)
    /\ [][(pc = "loop" /\ pc' = "loop") =>
            \/ pRange' > pRange
            \/ trace'.backups = trace.backups + 1]_vars

\* The whole ray was followed without meeting the ground
C4_GaveUp ==
    /\ pc = "done"
    /\ ~result
    /\ ~trace.everUnder
    /\ trace.lookups > 200

\* C9: once a coarse sample was found at or below ground, the call returns
\* success.
C9_CoarseDetectionSucceeds ==
    (pc = "done" /\ trace.backups >= 1) => result

----------------------------------------------------------------------------
(* Properties of the offset projector *)

\* C5: offsetImageLocation fails exactly when cosLat is zero, or the sensor
\* altitude minus the image altitude is <= 0, or the Down component after
\* adding the rotated offset is <= 0; otherwise it succeeds and writes the
\* new position.
C5_OffsetFailsExactly ==
    off.called =>
        /\ off.ok = ~(\/ off.in.cosLat = 0
                      \/ off.in.posAlt - off.in.imageAlt <= 0
                      \/ VectorToNew(off.in)[3] <= 0)
        /\ off.written = off.ok
        /\ off.ok => off.newPosLLA[3] = off.in.imageAlt

\* A projection refused only because the offset points above the horizon
C5_AboveHorizon ==
    /\ off.called
    /\ ~off.ok
    /\ off.in.cosLat # 0
    /\ off.in.posAlt > off.in.imageAlt

----------------------------------------------------------------------------
(* Properties of the decoder *)

InDomain(tilt) == -180 <= tilt /\ tilt <= 180

ZeroPanTilt ==
    /\ dec.called
    /\ dec.ok
    /\ dec.pkt.pan = 0
    /\ dec.pkt.tilt = 0
    /\ dec.pkt.gimbalQuat = identityQuat

\* C8 as stated: with pan = tilt = 0 and the identity quaternion the angles
\* of the camera-to-gimbal rotation are 0 and cameraDcm equals gimbalDcm,
\* whatever the other base fields are.
C8_CameraIsGimbal ==
    ZeroPanTilt =>
        /\ dec.Pan = 0
        /\ dec.Tilt = 0
        /\ dec.cameraDcm = dec.gimbalDcm

\* C8 amended: with pan = tilt = 0 and the identity quaternion the angles of
\* the camera-to-gimbal rotation are the negated output shifts; when both
\* shifts are 0 they are 0 and cameraDcm equals gimbalDcm.
C8_CameraIsGimbalUnshifted ==
    ZeroPanTilt =>
        /\ dec.Pan = 0 - dec.pkt.shiftPan
        /\ dec.Tilt = 0 - dec.pkt.shiftTilt
        /\ (dec.pkt.shiftPan = 0 /\ dec.pkt.shiftTilt = 0) =>
              /\ dec.Pan = 0
              /\ dec.Tilt = 0
              /\ dec.cameraDcm = dec.gimbalDcm
        /\ (dec.pkt.shiftPan # 0 \/ dec.pkt.shiftTilt # 0) =>
              dec.cameraDcm # dec.gimbalDcm

\* Such a packet without output shifts and with a line of sight was decoded
C8_Unshifted ==
    /\ ZeroPanTilt
    /\ dec.pkt.shiftPan = 0
    /\ dec.pkt.shiftTilt = 0
    /\ dec.slantRange = 500
    /\ dec.cameraDcm = identityDcm

====
